---- MODULE Spec2Model ----
(***************************************************************************)
(* Model of pg_backup.py: one run of main(), which dumps a PostgreSQL      *)
(* database, compresses the dump, authenticates against Google Drive,      *)
(* looks the target folder up (creating it when absent), uploads the       *)
(* archive, prunes old remote backups and removes its scratch directory.   *)
(*                                                                         *)
(* The program is single-threaded; pc is the position of main() in its     *)
(* code.  The environment (process environment variables, the token file,  *)
(* the Drive account, the outcome of every external call) is the input:    *)
(* the state of the outside world is drawn in Init, the value of an        *)
(* environment variable and the outcome of an external call are drawn at   *)
(* the statement that reads it or makes it.                                *)
(***************************************************************************)
EXTENDS Integers, Sequences, FiniteSets, TLC

(***************************************************************************)
(* Bounds of the model.                                                    *)
(***************************************************************************)
\* Today's date as a proleptic Gregorian ordinal (datetime.now()); dates
\* are counted in whole days.
NowDay == 739925
\* Folders already present in the Drive account when main() starts.
MaxFolders == 1
\* Folders already present when get_or_create_folder is exercised alone.
MaxLookupFolders == 3

(***************************************************************************)
(* Program constants.                                                      *)
(***************************************************************************)
DEFAULT_RETENTION_DAYS == 7
DEFAULT_GOOGLE_DRIVE_FOLDER_NAME == "postgres_backups"

\* os.environ.get(name) of a variable that is not in the environment.
Unset == "<unset>"
\* Python's None as the default of get_env_or_default.
None == "<None>"
\* A variable the run has not read yet.
NotRead == "<not read>"

RequiredVars == <<"PGHOST", "PGUSER", "PGPASSWORD", "PGDATABASE">>
ReadVars == {"RETENTION_DAYS", "GDRIVE_FOLDER", "PGHOST", "PGUSER",
             "PGPASSWORD", "PGDATABASE", "GOOGLE_CREDENTIALS"}
EnvNames == ReadVars \cup {"SHARE_EMAIL"}

\* Values the environment may give a variable.
EnvValues == {Unset, "", "v"}
RetentionInputs == {Unset, "", "abc", "-1", "0", "2", "1000000"}
FolderNames == {DEFAULT_GOOGLE_DRIVE_FOLDER_NAME, "other"}
FolderInputs == {Unset, "other"}
ShareInputs == {Unset, "ops@example.com"}

VARIABLES
    pc,             \* position of main()
    environ,        \* the process environment, as far as it has been read
    retention_days, \* main: retention_days
    gdrive_folder,  \* main: gdrive_folder
    local,          \* local paths that exist (scratch dirs and files)
    created,        \* local paths the run has created so far
    dump_rc,        \* how the pg_dump subprocess ended
    token_file,     \* contents of TOKEN_FILE_PATH
    creds,          \* authenticate_google_drive: creds
    refresh,        \* outcome of creds.refresh(Request())
    prompted,       \* input("Enter the authorization code: ") was reached
    token_save,     \* outcome of writing creds to TOKEN_FILE_PATH
    folders,        \* Drive: the folders of the account, in listing order
    objects,        \* Drive: the files kept in folders
    folder_id,      \* main: folder_id
    lookups,        \* identifiers returned by get_or_create_folder so far
    listed,         \* delete_old_backups_gdrive: files (ids, in order)
    todo,           \* delete_old_backups_gdrive: rest of the for loop
    calls,          \* requests sent to Google so far, in order
    steps,          \* pipeline steps started so far, in order
    succeeded,      \* pipeline steps that completed without error
    cleanup,        \* outcome of the finally block of main()
    status,         \* exit status the run is heading for
    exit_code       \* exit status of the process, -1 while it runs

cfgVars == <<environ, retention_days, gdrive_folder>>
fsVars == <<local, created>>
authVars == <<token_file, creds, refresh, prompted, token_save>>
driveVars == <<folders, objects, calls>>
folderVars == <<folder_id, lookups>>
pruneVars == <<listed, todo>>
vars == <<pc, cfgVars, fsVars, dump_rc, authVars, driveVars, folderVars,
          pruneVars, steps, succeeded, cleanup, status, exit_code>>

(***************************************************************************)
(* Helpers.                                                                *)
(***************************************************************************)
\* Python truthiness of a str-or-None value: `not value`.
Falsy(value) == value \in {None, ""}

\* os.environ.get(var_name, default)
EnvironGet(raw, default) == IF raw = Unset THEN default ELSE raw

\* int(s) for the strings of RetentionInputs: the integer a decimal literal
\* denotes; any other string raises ValueError.
IsIntLiteral(s) == s \in {"-1", "0", "2", "1000000"}
ParseInt(s) ==
    CASE s = "-1" -> -1
      [] s = "0" -> 0
      [] s = "2" -> 2
      [] s = "1000000" -> 1000000

\* Fault: only a missing value ends the run, an empty one passes.
get_env_or_default_wrong(raw, default, required) ==
    LET value == EnvironGet(raw, default)
    IN  [value |-> value, exit |-> required /\ value = None]
\* get_env_or_default: the value returned, and whether sys.exit(1) is
\* called instead.
get_env_or_default(raw, default, required) ==
    LET value == EnvironGet(raw, default)
    IN  [value |-> value, exit |-> required /\ Falsy(value)]

Call(op, arg, ok) == [op |-> op, arg |-> arg, ok |-> ok]
Range(s) == {s[i] : i \in DOMAIN s}

NoCreds == [present |-> FALSE, valid |-> FALSE, expired |-> FALSE,
            refresh_token |-> FALSE]
\* google.oauth2 Credentials: valid means a token that is not expired.
CredStates ==
    {c \in [present : {TRUE}, valid : BOOLEAN, expired : BOOLEAN,
            refresh_token : BOOLEAN] : c.valid => ~c.expired}
FreshCreds == [present |-> TRUE, valid |-> TRUE, expired |-> FALSE,
               refresh_token |-> TRUE]
\* TOKEN_FILE_PATH: absent, unreadable, or a serialized credential.
TokenFiles ==
    {[state |-> "absent", token |-> NoCreds],
     [state |-> "corrupt", token |-> NoCreds]}
    \cup {[state |-> "ok", token |-> c] : c \in CredStates}

(***************************************************************************)
(* The state before main() runs.                                           *)
(***************************************************************************)
\* Drive folders: identifiers 1..n in the order files().list returns them.
FolderStores(n) ==
    UNION {[1..k -> [name : FolderNames, trashed : BOOLEAN]] : k \in 0..n}
\* Files already kept in folder 1: three of different ages, one trashed.
OldObjects ==
    {[id |-> "old30", parent |-> 1, created |-> NowDay - 30, trashed |-> FALSE],
     [id |-> "old5", parent |-> 1, created |-> NowDay - 5, trashed |-> FALSE],
     [id |-> "old1", parent |-> 1, created |-> NowDay - 1, trashed |-> FALSE],
     [id |-> "bin30", parent |-> 1, created |-> NowDay - 30, trashed |-> TRUE]}
\* The contents of folder 1 before the run: nothing, one old backup, or all.
ObjectStores ==
    {{}, {o \in OldObjects : o.id = "old30"}, OldObjects}
\* The order in which files().list returns files.
ObjectOrder == <<"old30", "old5", "old1", "bin30", "uploaded">>

\* SHARE_EMAIL is set or not from the start: no statement reads it.
InitRun ==
    /\ environ \in {[n \in EnvNames |->
                       IF n = "SHARE_EMAIL" THEN s ELSE NotRead] :
                    s \in ShareInputs}
    /\ retention_days = 0
    /\ gdrive_folder = ""
    /\ local = {}
    /\ created = {}
    /\ dump_rc = "notrun"
    /\ creds = NoCreds
    /\ refresh = "none"
    /\ prompted = FALSE
    /\ token_save = "none"
    /\ folder_id = 0
    /\ lookups = <<>>
    /\ listed = <<>>
    /\ todo = <<>>
    /\ calls = <<>>
    /\ steps = <<>>
    /\ succeeded = {}
    /\ cleanup = "notrun"
    /\ status = -1
    /\ exit_code = -1

Init ==
    /\ pc = "config"
    /\ InitRun
    /\ token_file \in TokenFiles
    /\ folders \in FolderStores(MaxFolders)
    /\ objects \in (IF Len(folders) = 0 THEN {{}} ELSE ObjectStores)

(***************************************************************************)
(* How main() leaves the try block early.                                  *)
(***************************************************************************)
\* sys.exit(1), or an exception nothing catches, inside the try block of
\* main(): control passes to the finally block and the status is 1.
Abort ==
    /\ pc' = "cleanup"
    /\ status' = 1

(***************************************************************************)
(* main, lines 301-305: configuration and scratch directory.               *)
(***************************************************************************)
\* retention_days = int(get_env_or_default("RETENTION_DAYS", 7)).  The
\* default is the integer itself, which int() returns unchanged; a string
\* int() rejects raises ValueError before the try block: no finally.
ReadRetention ==
    /\ pc = "config"
    /\ \E raw \in RetentionInputs :
          LET r == get_env_or_default(raw, None, FALSE)
          IN  /\ environ' = [environ EXCEPT !["RETENTION_DAYS"] = raw]
              /\ IF r.value = None
                 THEN /\ retention_days' = DEFAULT_RETENTION_DAYS
                      /\ pc' = "config_folder"
                      /\ UNCHANGED exit_code
                 ELSE IF IsIntLiteral(r.value)
                 THEN /\ retention_days' = ParseInt(r.value)
                      /\ pc' = "config_folder"
                      /\ UNCHANGED exit_code
                 ELSE /\ pc' = "done"
                      /\ exit_code' = 1
                      /\ UNCHANGED retention_days
    /\ UNCHANGED <<gdrive_folder, fsVars, dump_rc, authVars, driveVars,
                   folderVars, pruneVars, steps, succeeded, cleanup, status>>

\* gdrive_folder = get_env_or_default("GDRIVE_FOLDER", "postgres_backups")
ReadFolder ==
    /\ pc = "config_folder"
    /\ \E raw \in FolderInputs :
          /\ environ' = [environ EXCEPT !["GDRIVE_FOLDER"] = raw]
          /\ gdrive_folder' =
               get_env_or_default(raw, DEFAULT_GOOGLE_DRIVE_FOLDER_NAME,
                                  FALSE).value
    /\ pc' = "mkdtemp"
    /\ UNCHANGED <<retention_days, fsVars, dump_rc, authVars, driveVars,
                   folderVars, pruneVars, steps, succeeded, cleanup, status,
                   exit_code>>

\* temp_dir = tempfile.mkdtemp()
MkTemp ==
    /\ pc = "mkdtemp"
    /\ local' = local \cup {"temp_dir"}
    /\ created' = created \cup {"temp_dir"}
    /\ pc' = RequiredVars[1]
    /\ UNCHANGED <<cfgVars, dump_rc, authVars, driveVars, folderVars,
                   pruneVars, steps, succeeded, cleanup, status, exit_code>>

(***************************************************************************)
(* create_postgres_backup, lines 59-132.                                   *)
(***************************************************************************)
\* The four get_env_or_default(..., required=True) calls, in order.  PGPORT
\* and PG_DUMP_CMD (not required, defaulted) cannot end the run.
GetRequiredEnv(i) ==
    /\ pc = RequiredVars[i]
    /\ \E raw \in EnvValues :
          /\ environ' = [environ EXCEPT ![RequiredVars[i]] = raw]
          /\ IF get_env_or_default(raw, None, TRUE).exit
             THEN Abort
             ELSE /\ pc' = IF i < Len(RequiredVars)
                           THEN RequiredVars[i + 1] ELSE "dump"
                  /\ UNCHANGED status
    /\ UNCHANGED <<retention_days, gdrive_folder, fsVars, dump_rc, authVars,
                   driveVars, folderVars, pruneVars, steps, succeeded, cleanup,
                   exit_code>>

\* Fault: the result of create_postgres_backup is not checked.
BackupCheck_wrong(backup_path) ==
    /\ pc' = "auth_load"
    /\ UNCHANGED status
\* main, lines 309-312: `if not backup_path: sys.exit(1)`.
BackupCheck(backup_path) ==
    IF backup_path = None
    THEN Abort
    ELSE /\ pc' = "auth_load"
         /\ UNCHANGED status

\* subprocess.run(cmd, check=True): exit status 0 leaves the dump file;
\* a non-zero status raises CalledProcessError (the file may or may not
\* have been written, nothing removes it here); failing to start the
\* utility raises OSError, handled by `except Exception`.
Dump ==
    /\ pc = "dump"
    /\ steps' = Append(steps, "dump")
    /\ \E rc \in {"zero", "nonzero", "oserror"}, wrote \in BOOLEAN :
          /\ dump_rc' = rc
          /\ CASE rc = "zero" ->
                    /\ wrote
                    /\ local' = local \cup {"plain_dump"}
                    /\ created' = created \cup {"plain_dump"}
                    /\ succeeded' = succeeded \cup {"dump"}
                    /\ pc' = "archive"
                    /\ UNCHANGED status
               [] rc = "nonzero" ->
                    /\ local' = local \cup (IF wrote THEN {"plain_dump"} ELSE {})
                    /\ created' =
                         created \cup (IF wrote THEN {"plain_dump"} ELSE {})
                    /\ UNCHANGED succeeded
                    /\ BackupCheck(None)
               [] rc = "oserror" ->
                    /\ ~wrote
                    /\ local' = local \ {"plain_dump", "compressed"}
                    /\ UNCHANGED <<created, succeeded>>
                    /\ BackupCheck(None)
    /\ UNCHANGED <<cfgVars, authVars, driveVars, folderVars, pruneVars,
                   cleanup, exit_code>>

\* tarfile.open(...).add(...), os.remove(plain_dump_path), getsize: on
\* success only the archive is left; on any exception the handler removes
\* the dump and whatever was written of the archive.
Archive ==
    /\ pc = "archive"
    /\ steps' = Append(steps, "archive")
    /\ \E ok \in BOOLEAN, partial \in BOOLEAN :
          IF ok
          THEN /\ partial
               /\ local' = (local \cup {"compressed"}) \ {"plain_dump"}
               /\ created' = created \cup {"compressed"}
               /\ succeeded' = succeeded \cup {"archive"}
               /\ BackupCheck("compressed")
          ELSE /\ local' = local \ {"plain_dump", "compressed"}
               /\ created' =
                    created \cup (IF partial THEN {"compressed"} ELSE {})
               /\ UNCHANGED succeeded
               /\ BackupCheck(None)
    /\ UNCHANGED <<cfgVars, dump_rc, authVars, driveVars, folderVars,
                   pruneVars, cleanup, exit_code>>

(***************************************************************************)
(* authenticate_google_drive, lines 135-214.                               *)
(***************************************************************************)
\* Fault: the validity check is dropped, new credentials are always asked.
NeedsNewCreds_wrong(c) == TRUE
\* `not creds or not creds.valid` (lines 150 and 161)
NeedsNewCreds(c) == ~c.present \/ ~c.valid
\* `creds and creds.expired and creds.refresh_token` (line 151)
CanRefresh(c) == c.present /\ c.expired /\ c.refresh_token

\* Lines 137-151: load the stored token; a file that cannot be parsed is
\* treated as no token.  Then choose between using it, refreshing it and
\* asking for a new one.
AuthLoad ==
    /\ pc = "auth_load"
    /\ steps' = Append(steps, "authenticate")
    /\ creds' = IF token_file.state = "ok" THEN token_file.token ELSE NoCreds
    /\ pc' = IF ~NeedsNewCreds(creds') THEN "auth_build"
             ELSE IF CanRefresh(creds') THEN "auth_refresh"
             ELSE "auth_secrets"
    /\ UNCHANGED <<cfgVars, fsVars, dump_rc, token_file, refresh, prompted,
                   token_save, driveVars, folderVars, pruneVars, succeeded,
                   cleanup, status, exit_code>>

\* Lines 152-161: creds.refresh(Request()); a failure drops the credential.
AuthRefresh ==
    /\ pc = "auth_refresh"
    /\ \E ok \in BOOLEAN :
          /\ calls' = Append(calls, Call("refresh_token", "token", ok))
          /\ refresh' = IF ok THEN "ok" ELSE "failed"
          /\ creds' = IF ok
                      THEN [creds EXCEPT !.valid = TRUE, !.expired = FALSE]
                      ELSE NoCreds
    /\ pc' = IF NeedsNewCreds(creds') THEN "auth_secrets" ELSE "auth_save"
    /\ UNCHANGED <<cfgVars, fsVars, dump_rc, token_file, prompted, token_save,
                   folders, objects, folderVars, pruneVars, steps, succeeded,
                   cleanup, status, exit_code>>

\* Lines 163-174: GOOGLE_CREDENTIALS is read (sys.exit(1) when empty), a
\* second scratch directory is made and the client secrets are written to
\* credentials.json in it.  open() or write() failing raises out of
\* authenticate_google_drive with the directory left behind; main turns
\* the exception into sys.exit(1) (lines 317-319).
AuthSecrets ==
    /\ pc = "auth_secrets"
    /\ \E raw \in EnvValues, io \in {"ok", "open_failed", "write_failed"} :
          /\ environ' = [environ EXCEPT !["GOOGLE_CREDENTIALS"] = raw]
          /\ IF Falsy(get_env_or_default(raw, None, FALSE).value)
             THEN /\ io = "ok"
                  /\ UNCHANGED fsVars
                  /\ Abort
             ELSE LET made == IF io = "open_failed" THEN {"creds_dir"}
                              ELSE {"creds_dir", "creds_file"}
                  IN  /\ local' = local \cup made
                      /\ created' = created \cup made
                      /\ IF io = "ok"
                         THEN pc' = "auth_flow" /\ UNCHANGED status
                         ELSE Abort
    /\ UNCHANGED <<retention_days, gdrive_folder, dump_rc, authVars, driveVars,
                   folderVars, pruneVars, steps, succeeded, cleanup, exit_code>>

\* Lines 176-204: the interactive flow.  from_client_secrets_file may
\* reject the secrets before anything is shown; otherwise the operator is
\* prompted and the code exchanged for a token.  Both the normal path and
\* the handler remove credentials.json and its directory; a removal that
\* fails leaves them behind and ends the run with status 1 as well.
AuthFlow ==
    /\ pc = "auth_flow"
    /\ \E flow \in {"bad_secrets", "fetch_failed", "ok"},
          rm \in {"ok", "remove_failed", "rmdir_failed"} :
          /\ prompted' = (flow # "bad_secrets")
          /\ calls' = IF flow = "bad_secrets" THEN calls
                      ELSE Append(calls, Call("fetch_token", "code", flow = "ok"))
          /\ creds' = IF flow = "ok" THEN FreshCreds ELSE creds
          /\ local' = CASE rm = "ok" -> local \ {"creds_file", "creds_dir"}
                        [] rm = "remove_failed" -> local
                        [] rm = "rmdir_failed" -> local \ {"creds_file"}
          /\ IF flow = "ok" /\ rm = "ok"
             THEN pc' = "auth_save" /\ UNCHANGED status
             ELSE Abort
    /\ UNCHANGED <<cfgVars, created, dump_rc, token_file, refresh, token_save,
                   folders, objects, folderVars, pruneVars, steps, succeeded,
                   cleanup, exit_code>>

\* Lines 206-212: write creds.to_json() to TOKEN_FILE_PATH; a failure is
\* logged as a warning (open(..., 'w') may already have emptied the file).
AuthSave ==
    /\ pc = "auth_save"
    /\ \E io \in {"ok", "open_failed", "write_failed"} :
          /\ token_save' = IF io = "ok" THEN "ok" ELSE "failed"
          /\ token_file' =
               CASE io = "ok" -> [state |-> "ok", token |-> creds]
                 [] io = "open_failed" -> token_file
                 [] io = "write_failed" -> [state |-> "corrupt", token |-> NoCreds]
    /\ pc' = "auth_build"
    /\ UNCHANGED <<cfgVars, fsVars, dump_rc, creds, refresh, prompted,
                   driveVars, folderVars, pruneVars, steps, succeeded, cleanup,
                   status, exit_code>>

\* Line 214 and main, lines 315-319: build('drive', 'v3', credentials=creds);
\* an exception is caught by main, which exits with status 1.
AuthBuild ==
    /\ pc = "auth_build"
    /\ \E ok \in BOOLEAN :
          IF ok
          THEN /\ succeeded' = succeeded \cup {"authenticate"}
               /\ pc' = "folder"
               /\ UNCHANGED status
          ELSE /\ UNCHANGED succeeded
               /\ Abort
    /\ UNCHANGED <<cfgVars, fsVars, dump_rc, authVars, driveVars, folderVars,
                   pruneVars, steps, cleanup, exit_code>>

(***************************************************************************)
(* get_or_create_folder, lines 217-243.                                    *)
(***************************************************************************)
\* files().list(q = name='...' and mimeType=folder and trashed=false):
\* the identifiers of the matching folders, in listing order.
MatchingFolders(fs, name) ==
    SelectSeq([i \in 1..Len(fs) |-> i],
              LAMBDA i : fs[i].name = name /\ ~fs[i].trashed)

\* Fault: the `if folders:` branch is missing, a folder is always created.
get_or_create_folder_wrong(fs, name, list_ok, create_ok) ==
    LET found == MatchingFolders(fs, name)
        list == Call("list_folders", name, list_ok)
        create == Call("create_folder", name, create_ok)
    IN  IF ~list_ok
        THEN [raised |-> TRUE, id |-> 0, folders |-> fs, sent |-> <<list>>]
        ELSE IF ~create_ok
        THEN [raised |-> TRUE, id |-> 0, folders |-> fs,
              sent |-> <<list, create>>]
        ELSE [raised |-> FALSE, id |-> Len(fs) + 1,
              folders |-> Append(fs, [name |-> name, trashed |-> FALSE]),
              sent |-> <<list, create>>]
\* The function as a whole: it raises when a request fails, returns the
\* first match when there is one, and otherwise creates the folder and
\* returns the new identifier.  Gives the outcome, the folders afterwards
\* and the requests sent.
get_or_create_folder(fs, name, list_ok, create_ok) ==
    LET found == MatchingFolders(fs, name)
        list == Call("list_folders", name, list_ok)
        create == Call("create_folder", name, create_ok)
    IN  IF ~list_ok
        THEN [raised |-> TRUE, id |-> 0, folders |-> fs, sent |-> <<list>>]
        ELSE IF found # <<>>
        THEN [raised |-> FALSE, id |-> found[1], folders |-> fs,
              sent |-> <<list>>]
        ELSE IF ~create_ok
        THEN [raised |-> TRUE, id |-> 0, folders |-> fs,
              sent |-> <<list, create>>]
        ELSE [raised |-> FALSE, id |-> Len(fs) + 1,
              folders |-> Append(fs, [name |-> name, trashed |-> FALSE]),
              sent |-> <<list, create>>]

\* main, lines 321-326: an exception ends the run with status 1.
Folder ==
    /\ pc = "folder"
    /\ steps' = Append(steps, "folder")
    /\ \E list_ok \in BOOLEAN, create_ok \in BOOLEAN :
          LET r == get_or_create_folder(folders, gdrive_folder, list_ok,
                                        create_ok)
          IN  /\ folders' = r.folders
              /\ calls' = calls \o r.sent
              /\ IF r.raised
                 THEN /\ UNCHANGED <<folderVars, succeeded>>
                      /\ Abort
                 ELSE /\ folder_id' = r.id
                      /\ lookups' = Append(lookups, r.id)
                      /\ succeeded' = succeeded \cup {"folder"}
                      /\ pc' = "upload"
                      /\ UNCHANGED status
    /\ UNCHANGED <<cfgVars, fsVars, dump_rc, authVars, objects, pruneVars,
                   cleanup, exit_code>>

(***************************************************************************)
(* upload_to_google_drive, lines 246-272.                                  *)
(***************************************************************************)
\* Fault: the result of upload_to_google_drive is not checked.
UploadCheck_wrong(uploaded) ==
    /\ pc' = "prune_guard"
    /\ UNCHANGED status
\* main, lines 329-331: `if not upload_to_google_drive(...): sys.exit(1)`.
UploadCheck(uploaded) ==
    IF uploaded
    THEN /\ pc' = "prune_guard"
         /\ UNCHANGED status
    ELSE Abort

\* files().create(body, media_body).execute(): True when the file was
\* stored, False when the request raised.
Upload ==
    /\ pc = "upload"
    /\ steps' = Append(steps, "upload")
    /\ \E ok \in BOOLEAN :
          /\ calls' = Append(calls, Call("upload", "compressed", ok))
          /\ objects' =
               IF ok
               THEN objects \cup {[id |-> "uploaded", parent |-> folder_id,
                                   created |-> NowDay, trashed |-> FALSE]}
               ELSE objects
          /\ succeeded' = IF ok THEN succeeded \cup {"upload"} ELSE succeeded
          /\ UploadCheck(ok)
    /\ UNCHANGED <<cfgVars, fsVars, dump_rc, authVars, folders, folderVars,
                   pruneVars, cleanup, exit_code>>

(***************************************************************************)
(* delete_old_backups_gdrive, lines 275-295, and its guard in main.        *)
(***************************************************************************)
\* Fault: the guard is off by one and lets retention_days = 0 through.
ShouldPrune_wrong(days) == days >= 0
\* main, line 334: `if retention_days > 0`.
ShouldPrune(days) == days > 0

\* Line 337 is reached when no pruning is asked for.
PruneGuard ==
    /\ pc = "prune_guard"
    /\ pc' = IF ShouldPrune(retention_days) THEN "prune_cutoff" ELSE "success"
    /\ UNCHANGED <<cfgVars, fsVars, dump_rc, authVars, driveVars, folderVars,
                   pruneVars, steps, succeeded, cleanup, status, exit_code>>

\* datetime.now() - timedelta(days=retention_days) raises OverflowError
\* when the result is before datetime.min (ordinal 1), that is when
\* retention_days >= the ordinal of today.
CutoffOverflows(days) == days >= NowDay
Cutoff(days) == NowDay - days

\* Lines 277-278, before the try block of the function: OverflowError is
\* caught by nothing and ends the run with status 1.
PruneCutoff ==
    /\ pc = "prune_cutoff"
    /\ steps' = Append(steps, "prune")
    /\ IF CutoffOverflows(retention_days)
       THEN Abort
       ELSE pc' = "prune_list" /\ UNCHANGED status
    /\ UNCHANGED <<cfgVars, fsVars, dump_rc, authVars, driveVars, folderVars,
                   pruneVars, succeeded, cleanup, exit_code>>

\* files().list(q = '<folder_id>' in parents and trashed=false and
\* createdTime < cutoff): the identifiers, in listing order.
OldBackups(objs, fid, cutoff) ==
    SelectSeq(ObjectOrder,
              LAMBDA id : \E o \in objs : /\ o.id = id
                                          /\ o.parent = fid
                                          /\ ~o.trashed
                                          /\ o.created < cutoff)

\* Lines 280-288 and 294-295: the listing; an exception is logged and the
\* function returns.
PruneList ==
    /\ pc = "prune_list"
    /\ \E ok \in BOOLEAN :
          /\ calls' = Append(calls, Call("list_old", "folder", ok))
          /\ IF ok
             THEN /\ listed' =
                       OldBackups(objects, folder_id, Cutoff(retention_days))
                  /\ todo' = listed'
                  /\ pc' = IF listed' = <<>> THEN "success" ELSE "prune_delete"
                  /\ succeeded' = IF listed' = <<>>
                                  THEN succeeded \cup {"prune"} ELSE succeeded
             ELSE /\ UNCHANGED <<pruneVars, succeeded>>
                  /\ pc' = "success"
    /\ UNCHANGED <<cfgVars, fsVars, dump_rc, authVars, folders, objects,
                   folderVars, steps, cleanup, status, exit_code>>

\* What the for loop of lines 290-292 does after a delete request: go on
\* with the next file, or (the request raised, and the try block encloses
\* the whole loop) leave the loop for the handler of line 294.
AfterDelete(ok, rest) ==
    IF ok /\ rest # <<>> THEN "prune_delete" ELSE "success"

\* One iteration of the loop: files().delete(fileId=file['id']).execute().
PruneDelete ==
    /\ pc = "prune_delete"
    /\ todo # <<>>
    /\ \E ok \in BOOLEAN :
          /\ calls' = Append(calls, Call("delete", Head(todo), ok))
          /\ objects' = IF ok THEN {o \in objects : o.id # Head(todo)}
                        ELSE objects
          /\ todo' = Tail(todo)
          /\ pc' = AfterDelete(ok, Tail(todo))
          /\ succeeded' = IF ok /\ Tail(todo) = <<>>
                          THEN succeeded \cup {"prune"} ELSE succeeded
    /\ UNCHANGED <<cfgVars, fsVars, dump_rc, authVars, folders, folderVars,
                   listed, steps, cleanup, status, exit_code>>

(***************************************************************************)
(* main, lines 337-349: the end of the try block and the finally block.    *)
(***************************************************************************)
\* Line 337: the try block ends normally; the exit status will be 0.
Success ==
    /\ pc = "success"
    /\ status' = 0
    /\ pc' = "cleanup"
    /\ UNCHANGED <<cfgVars, fsVars, dump_rc, authVars, driveVars, folderVars,
                   pruneVars, steps, succeeded, cleanup, exit_code>>

\* The files create_postgres_backup writes into temp_dir.
TempFiles == {"plain_dump", "compressed"}

\* Fault: only the raw dump is removed, the archive is forgotten.
CleanupResult_wrong(paths, fail_at) ==
    CASE fail_at = "none" -> paths \ {"plain_dump", "temp_dir"}
      [] fail_at = "listdir" -> paths
      [] fail_at = "remove" -> paths
      [] fail_at = "rmdir" -> paths \ {"plain_dump"}
\* Lines 342-346: every file of temp_dir is removed, then the directory.
\* fail_at names the call that raises, if any: what has been removed by
\* then stays removed, the rest is left.
CleanupResult(paths, fail_at) ==
    CASE fail_at = "none" -> paths \ (TempFiles \cup {"temp_dir"})
      [] fail_at = "listdir" -> paths
      [] fail_at = "remove" -> paths
      [] fail_at = "rmdir" -> paths \ TempFiles

\* The finally block, then the process ends with the pending status: an
\* exception of the cleanup is logged as a warning and changes nothing.
Cleanup ==
    /\ pc = "cleanup"
    /\ steps' = Append(steps, "cleanup")
    /\ \E fail_at \in {"none", "listdir", "remove", "rmdir"} :
          /\ fail_at = "remove" => local \cap TempFiles # {}
          /\ local' = CleanupResult(local, fail_at)
          /\ cleanup' = IF fail_at = "none" THEN "ok" ELSE "failed"
    /\ exit_code' = status
    /\ pc' = "done"
    /\ UNCHANGED <<cfgVars, created, dump_rc, authVars, driveVars, folderVars,
                   pruneVars, succeeded, status>>

Next ==
    \/ ReadRetention
    \/ ReadFolder
    \/ MkTemp
    \/ \E i \in 1..Len(RequiredVars) : GetRequiredEnv(i)
    \/ Dump
    \/ Archive
    \/ AuthLoad
    \/ AuthRefresh
    \/ AuthSecrets
    \/ AuthFlow
    \/ AuthSave
    \/ AuthBuild
    \/ Folder
    \/ Upload
    \/ PruneGuard
    \/ PruneCutoff
    \/ PruneList
    \/ PruneDelete
    \/ Success
    \/ Cleanup

Spec == Init /\ [][Next]_vars

(***************************************************************************)
(* get_or_create_folder called twice by one caller on the same account,    *)
(* nothing else touching the account in between.                           *)
(***************************************************************************)
InitLookup ==
    /\ pc = "lookup"
    /\ InitRun
    /\ token_file = [state |-> "absent", token |-> NoCreds]
    /\ folders \in FolderStores(MaxLookupFolders)
    /\ objects = {}

ChooseName ==
    /\ pc = "lookup"
    /\ \E name \in FolderNames : gdrive_folder' = name
    /\ pc' = "lookup_1"
    /\ UNCHANGED <<environ, retention_days, fsVars, dump_rc, authVars,
                   driveVars, folderVars, pruneVars, steps, succeeded, cleanup,
                   status, exit_code>>

Lookup(n) ==
    /\ pc = IF n = 1 THEN "lookup_1" ELSE "lookup_2"
    /\ steps' = Append(steps, "folder")
    /\ \E list_ok \in BOOLEAN, create_ok \in BOOLEAN :
          LET r == get_or_create_folder(folders, gdrive_folder, list_ok,
                                        create_ok)
          IN  /\ folders' = r.folders
              /\ calls' = calls \o r.sent
              /\ IF r.raised
                 THEN UNCHANGED folderVars
                 ELSE /\ folder_id' = r.id
                      /\ lookups' = Append(lookups, r.id)
    /\ pc' = IF n = 1 THEN "lookup_2" ELSE "lookup_done"
    /\ UNCHANGED <<cfgVars, fsVars, dump_rc, authVars, objects, pruneVars,
                   succeeded, cleanup, status, exit_code>>

NextLookup ==
    \/ ChooseName
    \/ Lookup(1)
    \/ Lookup(2)

SpecLookup == InitLookup /\ [][NextLookup]_vars

(***************************************************************************)
(* Properties.                                                             *)
(***************************************************************************)
Done == pc = "done"
\* The run entered the try block of main(): its scratch directory exists.
ReachedPipeline == "temp_dir" \in created
Sent(op) == {i \in DOMAIN calls : calls[i].op = op}
StorageOps == {"list_folders", "create_folder", "upload", "share",
               "list_old", "delete"}
FatalSteps == {"dump", "archive", "authenticate", "folder", "upload"}
StepOrder == <<"dump", "archive", "authenticate", "folder", "upload",
               "prune", "cleanup">>
StepIndex(s) == CHOOSE k \in DOMAIN StepOrder : StepOrder[k] = s
MissingRequired ==
    \E i \in DOMAIN RequiredVars : environ[RequiredVars[i]] \in {Unset, ""}

\* C1 (as stated): every run that reached the pipeline has run the cleanup
\* by the time the process ends, and after a run that exits with status 0
\* no local temporary path of the run is left.
C1_SuccessLeavesNothing ==
    /\ Done /\ ReachedPipeline => cleanup # "notrun"
    /\ Done /\ exit_code = 0 => local = {}

\* C1 (amended): every run that reached the pipeline has run the cleanup by
\* the time the process ends; after a run that exits with status 0 the
\* temporary credential file and its directory are gone, and so are the
\* dump, the archive and the scratch directory unless the cleanup itself
\* failed.
C1_CleanupAlwaysRuns ==
    /\ Done /\ ReachedPipeline => cleanup # "notrun"
    /\ Done /\ exit_code = 0 => local \subseteq TempFiles \cup {"temp_dir"}
    /\ Done /\ exit_code = 0 /\ cleanup = "ok" => local = {}

\* A successful run that went through the interactive flow, so that every
\* temporary path was created, and whose cleanup succeeded.
C1_Witness ==
    /\ Done /\ exit_code = 0 /\ cleanup = "ok"
    /\ created = {"temp_dir", "plain_dump", "compressed", "creds_dir",
                  "creds_file"}

\* C2: when the dump utility exits non-zero, no request is ever sent to
\* Google (no upload in particular) and the process ends with a non-zero
\* status.
C2_DumpFailureStopsRun ==
    dump_rc = "nonzero" =>
        /\ calls = <<>>
        /\ "upload" \notin Range(steps)
        /\ Done => exit_code # 0

C2_Witness == Done /\ dump_rc = "nonzero" /\ "plain_dump" \in created

\* C3: the exit status is 0 exactly when dump, archive, authentication,
\* folder lookup and upload all succeeded (configuration having succeeded
\* before them); whatever happens during pruning does not change that.
C3_ExitZeroIffUploaded ==
    Done => (exit_code = 0 <=> FatalSteps \subseteq succeeded)

\* C4: every file listed as older than the cutoff gets a delete request of
\* its own, whether or not the requests before it failed.
C4_EveryListedFileAttempted ==
    Done => \A k \in DOMAIN listed :
               \E i \in Sent("delete") : calls[i].arg = listed[k]

\* C5: with retention_days <= 0 no listing for pruning and no delete
\* request is ever sent, and the run exits with status 0 when the dump and
\* the upload succeeded.
C5_NoPruneWithoutRetention ==
    (environ["RETENTION_DAYS"] # NotRead /\ retention_days <= 0) =>
        /\ Sent("list_old") = {}
        /\ Sent("delete") = {}
        /\ "prune" \notin Range(steps)
        /\ (Done /\ {"dump", "upload"} \subseteq succeeded) => exit_code = 0

C5_Witness ==
    /\ Done /\ exit_code = 0
    /\ environ["RETENTION_DAYS"] = "0"
    /\ "upload" \in succeeded
    /\ \E o \in objects : o.id = "old30" /\ o.parent = folder_id

\* C6 (as stated): when a required setting is absent the run ends with a
\* non-zero status, the dump utility was never started, no local file or
\* directory has been created and no request was sent.
C6_MissingSettingNoSideEffect ==
    MissingRequired =>
        /\ Done => exit_code # 0
        /\ dump_rc = "notrun"
        /\ created = {}
        /\ calls = <<>>

\* C6 (amended): when a required setting is absent the run ends with a
\* non-zero status, the dump utility was never started, no local file has
\* been created and no request was sent; the one side effect is the
\* scratch directory main() makes before the settings are read, which the
\* cleanup removes again unless the cleanup itself fails.
C6_MissingSettingOnlyScratchDir ==
    MissingRequired =>
        /\ Done => exit_code # 0
        /\ dump_rc = "notrun"
        /\ created = {"temp_dir"}
        /\ calls = <<>>
        /\ Done /\ cleanup = "ok" => local = {}

C6_Witness ==
    /\ Done /\ exit_code = 1 /\ cleanup = "ok"
    /\ environ["PGHOST"] = "v" /\ environ["PGUSER"] = "v"
    /\ environ["PGPASSWORD"] = Unset

\* C7: with SHARE_EMAIL set, a run whose upload succeeded sends a share
\* request after the upload and before any pruning request; with
\* SHARE_EMAIL unset no share request is sent and the run exits 0 when
\* nothing else fails.
C7_ShareFollowsUpload ==
    /\ (Done /\ environ["SHARE_EMAIL"] # Unset /\ "upload" \in succeeded) =>
          \E i \in Sent("share") :
             /\ \E j \in Sent("upload") : j < i
             /\ \A k \in Sent("list_old") \cup Sent("delete") : i < k
    /\ environ["SHARE_EMAIL"] = Unset => Sent("share") = {}

\* C8 (as stated): the operator is prompted only when no valid credential
\* is at hand after loading the stored token and trying a refresh; when
\* the refresh of an expired token succeeds nobody is prompted and the
\* token file holds the refreshed credential afterwards.
C8_RefreshedTokenStored ==
    /\ pc = "auth_flow" => ~creds.present \/ ~creds.valid
    /\ prompted => refresh # "ok"
    /\ (refresh = "ok" /\ pc \notin {"auth_refresh", "auth_save"}) =>
          token_file = [state |-> "ok", token |-> creds]

\* C8 (amended): the operator is prompted only when no valid credential is
\* at hand after loading the stored token and trying a refresh; when the
\* refresh of an expired token succeeds nobody is prompted and the
\* refreshed credential is written to the token file, a write that may
\* fail (which is only logged): the token file holds the refreshed
\* credential whenever the write succeeded.
C8_RefreshedTokenWritten ==
    /\ pc = "auth_flow" => ~creds.present \/ ~creds.valid
    /\ prompted => refresh # "ok"
    /\ (refresh = "ok" /\ pc \notin {"auth_refresh", "auth_save"}) =>
          /\ token_save # "none"
          /\ creds.valid
          /\ token_save = "ok" =>
                token_file = [state |-> "ok", token |-> creds]

C8_Witness ==
    /\ Done /\ exit_code = 0
    /\ refresh = "ok" /\ token_save = "ok" /\ ~prompted
    /\ environ["GOOGLE_CREDENTIALS"] = NotRead

\* C9: the steps run in pipeline order, each at most once, a step only
\* after all the fatal steps before it succeeded; a fatal step that fails
\* is followed by the cleanup and nothing else; no request is repeated;
\* and no delete request is sent unless the upload succeeded.
C9_LinearNoRetry ==
    /\ \A i, j \in DOMAIN steps :
          i < j => StepIndex(steps[i]) < StepIndex(steps[j])
    /\ \A i \in DOMAIN steps :
          steps[i] # "cleanup" =>
             \A s \in FatalSteps :
                StepIndex(s) < StepIndex(steps[i]) => s \in succeeded
    /\ \A i \in DOMAIN steps :
          (i < Len(steps) /\ steps[i] \in FatalSteps \ succeeded) =>
             (steps[i + 1] = "cleanup" /\ i + 1 = Len(steps))
    /\ Done /\ ReachedPipeline => steps[Len(steps)] = "cleanup"
    /\ \A op \in {"list_folders", "create_folder", "upload", "list_old",
                  "refresh_token", "fetch_token"} : Cardinality(Sent(op)) <= 1
    /\ \A i, j \in Sent("delete") : calls[i].arg = calls[j].arg => i = j
    /\ Sent("delete") # {} => "upload" \in succeeded

C9_Witness ==
    /\ Done
    /\ steps = <<"dump", "archive", "authenticate", "folder", "upload",
                 "cleanup">>
    /\ "upload" \notin succeeded
    /\ \E o \in objects : o.id = "old30" /\ o.parent = folder_id

\* C10: two calls of get_or_create_folder with the same name return the
\* same identifier, and between them a folder is created at most once, and
\* then only because no untrashed folder of that name existed.
C10_LookupIdempotent ==
    LET made == {i \in Sent("create_folder") : calls[i].ok}
    IN  /\ Len(lookups) = 2 => lookups[1] = lookups[2]
        /\ Cardinality(made) <= 1
        /\ made # {} =>
              MatchingFolders(folders, gdrive_folder) = <<Len(folders)>>

C10_Witness ==
    /\ Len(lookups) = 2
    /\ \E i \in Sent("create_folder") : calls[i].ok
    /\ Len(folders) > 2

====
